---- MODULE Spec2Model ----
(***************************************************************************)
(* MovingAverage (backtrack_large_window_to_csv.py): a capacity-bounded    *)
(* sample store with tiered downsampling (Update) and a backward-walking   *)
(* simple moving average over the trading seconds of a trailing window     *)
(* (Get / GetSMA).                                                         *)
(*                                                                         *)
(* Timestamps are float seconds since the epoch in the program.  Here a    *)
(* timestamp is an integer: the number of ticks of 1/16 second             *)
(* (TicksPerSecond) since 2025-03-31 00:00:00 UTC (OriginSecond), so the   *)
(* program's ts is the model's (ts - 1743379200) * 16, and 09:30:00.0625   *)
(* of 2025-04-04 is (1743759000 - 1743379200) * 16 + 1.  Sixteenths are    *)
(* exact in binary floating point; one tick is below the 0.1 s tolerance   *)
(* of the price lookup and two ticks are above it.  The origin keeps the   *)
(* ticks within 32-bit integers; comparisons of a timestamp with 0 are     *)
(* made on its epoch second (EpochSecond).  The local time zone is UTC.    *)
(* The window is a number of seconds.  Prices are positive integers; the   *)
(* value returned by Get is kept as the exact quotient total/count         *)
(* (num, den).                                                             *)
(* A sample (timestamp, value) is the tuple <<timestamp, value>>.          *)
(* Update is one atomic action.  GetSMA runs without interleaving, one     *)
(* iteration of its while loops per step, with pc naming the loop.         *)
(***************************************************************************)
EXTENDS Integers, Sequences, FiniteSets

VARIABLES
    num_bin,              \* self.num_bin
    window,               \* self.window
    data,                 \* self.data: sequence of <<timestamp, value>>
    current_timestamp,    \* self.current_timestamp (None until the first Update)
    pc,                   \* "idle", or the loop of GetSMA being executed
    check_time,           \* GetSMA local
    total_price,          \* GetSMA local
    valid_points_count,   \* GetSMA local
    remaining_seconds,    \* GetSMA local (second loop)
    sma,                  \* value returned by the latest Get since the last Update
    counted,              \* instants accumulated by the running/latest Get, in order
    continued,            \* the running/latest Get entered its second loop
    gets,                 \* Get calls completed since the last Update
    raised,               \* an Update ended in an exception
    nUpdates,             \* Update calls so far
    maxTs,                \* greatest timestamp passed to Update so far
    lastSample,           \* the sample passed to the latest Update
    increasing,           \* every Update so far had a timestamp above all earlier ones
    feed                  \* the caller: which timestamps it sends, how many, in which order

vars == <<num_bin, window, data, current_timestamp, pc, check_time, total_price,
          valid_points_count, remaining_seconds, sma, counted, continued, gets, raised,
          nUpdates, maxTs, lastSample, increasing, feed>>

(***************************** bounds ***************************************)
MaxCap == 4            \* capacities 1..MaxCap under the "store" feed
MaxStoreUpdates == 5   \* Updates under the "store" feed
MaxUpdates == 2        \* Updates under the "clock" and "overnight" feeds
MaxFeed == 12          \* Updates under the "stream" feed
MaxGets == 2           \* consecutive Get calls between two Updates
ReshapeCap == 9        \* the capacity under the "reshape" feed

(***************************** calendar *************************************)
\* self.current_timestamp = None (no caller sends a timestamp before the origin)
None == -1

\* the resolution of timestamps: ticks per second
TicksPerSecond == 16

\* the origin of timestamps, 2025-03-31 00:00:00 UTC, as an epoch second and
\* as a day since 1970-01-01
OriginSecond == 1743379200
OriginDay == OriginSecond \div 86400

\* the timestamp of a whole epoch second
FromEpoch(second) == (second - OriginSecond) * TicksPerSecond

\* the whole epoch second a timestamp lies in, and its ticks beyond it
EpochSecond(ts) == OriginSecond + (ts \div TicksPerSecond)
SubSecond(ts) == ts % TicksPerSecond

\* ts >= 0, ts > 0 and ts == 0 of the program's float seconds
NotBeforeEpoch(ts) == EpochSecond(ts) >= 0
AfterEpoch(ts) == EpochSecond(ts) > 0 \/ (EpochSecond(ts) = 0 /\ SubSecond(ts) > 0)
IsEpoch(ts) == EpochSecond(ts) = 0 /\ SubSecond(ts) = 0

\* "check_time -= 1" takes one second off a timestamp
OneSecond == TicksPerSecond

\* a duration of h hours, m minutes, s seconds, in seconds
Seconds(h, m, s) == h * 3600 + m * 60 + s

\* a '%H:%M:%S' string of trading_hours as a time of the day, in ticks
HMS(h, m, s) == Seconds(h, m, s) * TicksPerSecond

morning_start == HMS(9, 30, 0)
morning_end == HMS(11, 30, 0)
afternoon_start == HMS(13, 0, 0)
afternoon_end == HMS(15, 0, 0)

\* datetime.fromtimestamp(ts): the date (days since 1970-01-01), the time
\* of the day (in ticks), the hour and the weekday (Monday 0 .. Sunday 6)
DateOf(ts) == OriginDay + (ts \div (86400 * TicksPerSecond))
SecondOfDay(ts) == ts % (86400 * TicksPerSecond)
HourOf(ts) == SecondOfDay(ts) \div (3600 * TicksPerSecond)
Weekday(day) == (day + 3) % 7

\* datetime.strptime(f"{date} {hms}").timestamp()
At(day, sod) == (day - OriginDay) * 86400 * TicksPerSecond + sod

\* mutant of is_trading_time: the afternoon close is excluded (dt < afternoon_end)
is_trading_time_open_close(timestamp) ==
    IF Weekday(DateOf(timestamp)) >= 5 THEN FALSE
    ELSE LET dt == SecondOfDay(timestamp) IN
         (morning_start <= dt /\ dt <= morning_end)
         \/ (afternoon_start <= dt /\ dt < afternoon_end)

is_trading_time(timestamp) ==
    IF Weekday(DateOf(timestamp)) >= 5 THEN FALSE
    ELSE LET dt == SecondOfDay(timestamp) IN
         (morning_start <= dt /\ dt <= morning_end)
         \/ (afternoon_start <= dt /\ dt <= afternoon_end)

(***************************** sorting **************************************)
\* sorted(..., key=lambda x: x[0]) and sorted(...) of tuples; both are stable
KeyLeq(a, b) == a[1] <= b[1]
TupleLeq(a, b) == a[1] < b[1] \/ (a[1] = b[1] /\ a[2] <= b[2])

\* x goes after every element e of the sorted sequence s with e <= x
InsertByKey(x, s) ==
    LET k == Cardinality({i \in 1..Len(s) : KeyLeq(s[i], x)}) IN
    SubSeq(s, 1, k) \o <<x>> \o SubSeq(s, k + 1, Len(s))

InsertByTuple(x, s) ==
    LET k == Cardinality({i \in 1..Len(s) : TupleLeq(s[i], x)}) IN
    SubSeq(s, 1, k) \o <<x>> \o SubSeq(s, k + 1, Len(s))

RECURSIVE SortedByKey(_)
SortedByKey(s) ==
    IF s = <<>> THEN <<>>
    ELSE InsertByKey(s[Len(s)], SortedByKey(SubSeq(s, 1, Len(s) - 1)))

RECURSIVE SortedTuples(_)
SortedTuples(s) ==
    IF s = <<>> THEN <<>>
    ELSE InsertByTuple(s[Len(s)], SortedTuples(SubSeq(s, 1, Len(s) - 1)))

Contains(s, x) == \E i \in 1..Len(s) : s[i] = x

(***************************** price lookup *********************************)
\* abs(ts - timestamp) < 0.1, the difference being diff / TicksPerSecond seconds
Near(ts, timestamp) ==
    LET diff == IF ts >= timestamp THEN ts - timestamp ELSE timestamp - ts IN
    diff * 10 < TicksPerSecond

\* _find_price_at_time(timestamp, default_price) over the series d
find_price_at_time(d, timestamp, default_price) ==
    IF d = <<>> THEN default_price
    ELSE IF \E i \in 1..Len(d) : Near(d[i][1], timestamp)
    THEN LET first == CHOOSE i \in 1..Len(d) :
                          /\ Near(d[i][1], timestamp)
                          /\ \A j \in 1..(i - 1) : ~Near(d[j][1], timestamp)
         IN d[first][2]
    ELSE LET sorted_data == SortedTuples(d) IN
         IF timestamp < sorted_data[1][1] THEN 0
         ELSE \* the loop stops at the first ts > timestamp; prev is the one before
              LET stop == IF \E i \in 1..Len(sorted_data) : sorted_data[i][1] > timestamp
                          THEN CHOOSE i \in 1..Len(sorted_data) :
                                   /\ sorted_data[i][1] > timestamp
                                   /\ \A j \in 1..(i - 1) : sorted_data[j][1] <= timestamp
                          ELSE Len(sorted_data) + 1
              IN IF stop > 1 THEN sorted_data[stop - 1][2] ELSE 0

(***************************** Update ***************************************)
Max(a, b) == IF a >= b THEN a ELSE b

\* mutant of SampleIndices: range(1, keep + 1) instead of range(keep)
SampleIndicesOffByOne(len, keep) == [i \in 1..keep |-> (i * len) \div keep]

\* [i * len(part) // keep for i in range(keep)], as 0-based list indices
SampleIndices(len, keep) == [i \in 1..keep |-> ((i - 1) * len) \div keep]

\* part[i] for a 0-based index raises IndexError outside -len..len-1
IndexOk(len, i) == -len <= i /\ i < len
ListGet(part, i) == IF i >= 0 THEN part[i + 1] ELSE part[Len(part) + i + 1]

\* the sampling of one partition: [part[i] for i in indices], [] for an empty part
SamplingOk(part, keep) ==
    part = <<>> \/ \A i \in 1..keep : IndexOk(Len(part), SampleIndices(Len(part), keep)[i])

Sampled(part, keep) ==
    IF part = <<>> \/ keep <= 0 THEN <<>>
    ELSE LET idx == SampleIndices(Len(part), keep) IN
         [i \in 1..keep |-> ListGet(part, idx[i])]

early_keep(cap) == Max(1, cap \div 10)          \* max(1, int(num_bin * 0.1))
mid_keep(cap) == Max(1, (cap * 3) \div 10)      \* max(1, int(num_bin * 0.3))
recent_keep(cap) == cap - early_keep(cap) - mid_keep(cap)

\* the three partitions of the time-sorted series
early_end(d) == (Len(d) * 2) \div 10            \* int(data_length * 0.2)
mid_end(d) == (Len(d) * 5) \div 10              \* int(data_length * 0.5)
early_data(d) == SubSeq(SortedByKey(d), 1, early_end(d))
mid_data(d) == SubSeq(SortedByKey(d), early_end(d) + 1, mid_end(d))
recent_data(d) == SubSeq(SortedByKey(d), mid_end(d) + 1, Len(d))

\* early_sampled + mid_sampled + recent_sampled
Combined(d, cap) ==
    Sampled(early_data(d), early_keep(cap))
    \o Sampled(mid_data(d), mid_keep(cap))
    \o Sampled(recent_data(d), recent_keep(cap))

\* the three list comprehensions complete without IndexError
ReshapeSamplingOk(d, cap) ==
    /\ SamplingOk(early_data(d), early_keep(cap))
    /\ SamplingOk(mid_data(d), mid_keep(cap))
    /\ SamplingOk(recent_data(d), recent_keep(cap))

\* mutant of NeedsFixup: the latest sample is never restored
NeedsFixupNever(d, cap) == FALSE

\* sorted_data and sorted_data[-1] not in self.data
NeedsFixup(d, cap) ==
    d # <<>> /\ ~Contains(Combined(d, cap), SortedByKey(d)[Len(d)])

\* self.data[-1] = sorted_data[-1] raises IndexError on an empty list
FixupOk(d, cap) == NeedsFixup(d, cap) => Combined(d, cap) # <<>>

\* mutant of Reshaped: the latest sample is appended instead of overwriting
ReshapedAppending(d, cap) ==
    LET c == Combined(d, cap) IN
    IF NeedsFixup(d, cap) THEN Append(c, SortedByKey(d)[Len(d)]) ELSE c

\* the series left by the reshape of d (lines 75-120), when nothing raises
Reshaped(d, cap) ==
    LET c == Combined(d, cap) IN
    IF NeedsFixup(d, cap)
    THEN [c EXCEPT ![Len(c)] = SortedByKey(d)[Len(d)]]
    ELSE c

\* self.data when Update returns or raises, after the append of the new sample
DataAfterUpdate(appended, cap) ==
    IF Len(appended) <= cap THEN appended
    ELSE IF ~ReshapeSamplingOk(appended, cap) THEN appended
    ELSE IF ~FixupOk(appended, cap) THEN Combined(appended, cap)
    ELSE Reshaped(appended, cap)

UpdateRaises(appended, cap) ==
    Len(appended) > cap
    /\ (~ReshapeSamplingOk(appended, cap) \/ ~FixupOk(appended, cap))

\* the value of Get: total/count, 0.0 as 0/1; den = 0 when no Get has returned
NoResult == [num |-> 0, den |-> 0]
Zero == [num |-> 0, den |-> 1]

\* a time-sorted caller sends the instants of its feed in order, none skipped
NextInstant(times, after) ==
    IF \E t \in times : t > after
    THEN CHOOSE t \in times : t > after /\ \A u \in times : u > after => t <= u
    ELSE None

Update(timestamp, value) ==
    /\ pc = "idle"
    /\ ~raised
    /\ nUpdates < feed.budget
    /\ timestamp \in feed.times
    /\ feed.ordered => timestamp = NextInstant(feed.times, maxTs)
    /\ current_timestamp' = timestamp
    /\ data' = DataAfterUpdate(Append(data, <<timestamp, value>>), num_bin)
    /\ raised' = UpdateRaises(Append(data, <<timestamp, value>>), num_bin)
    /\ nUpdates' = nUpdates + 1
    /\ maxTs' = Max(maxTs, timestamp)
    /\ lastSample' = <<timestamp, value>>
    /\ increasing' = (increasing /\ timestamp > maxTs)
    /\ gets' = 0
    /\ sma' = NoResult
    /\ counted' = <<>>
    /\ continued' = FALSE
    /\ check_time' = 0
    /\ total_price' = 0
    /\ valid_points_count' = 0
    /\ remaining_seconds' = 0
    /\ UNCHANGED <<num_bin, window, pc, feed>>

(***************************** Get / GetSMA **********************************)
\* check_day - timedelta(days=1), then back over Saturdays and Sundays
RECURSIVE SkipWeekend(_)
SkipWeekend(day) == IF Weekday(day) >= 5 THEN SkipWeekend(day - 1) ELSE day
prev_day(check_day) == SkipWeekend(check_day - 1)

\* jump_to_time of the first loop for the cursor t (None when no branch applies)
PrimaryJump(t) ==
    IF 11 <= HourOf(t) /\ HourOf(t) < 13 THEN At(DateOf(t), morning_end)
    ELSE IF HourOf(t) < 9 \/ HourOf(t) >= 15 THEN At(prev_day(DateOf(t)), afternoon_end)
    ELSE None

\* jump_to_time of the second loop
ContinuationJump(t) ==
    IF HourOf(t) < 9 \/ HourOf(t) >= 15 THEN At(prev_day(DateOf(t)), afternoon_end)
    ELSE None

\* mutant of MovedBack: "check_time -= 1" is missing (t is the decremented cursor)
MovedBackNoDecrement(t, jump) ==
    IF ~is_trading_time(t) /\ AfterEpoch(t) /\ jump # None /\ jump < t THEN jump
    ELSE t + OneSecond

\* check_time after "check_time -= 1" and the jump, with jump_to_time = jump(t)
MovedBack(t, jump) ==
    IF ~is_trading_time(t) /\ AfterEpoch(t) /\ jump # None /\ jump < t THEN jump ELSE t

\* current_price = self.data[-1][1] if self.data else 100.0
current_price == IF data # <<>> THEN data[Len(data)][2] ELSE 100

\* current_session == "afternoon": current_dt.hour >= 12
is_afternoon_session == HourOf(current_timestamp) >= 12

\* mutant of window_start: the window is one second short
window_start_short == current_timestamp - window * TicksPerSecond + OneSecond

window_start == current_timestamp - window * TicksPerSecond

\* sma = total_price / valid_points_count if valid_points_count > 0 else 0.0
Quotient(total, count) == IF count > 0 THEN [num |-> total, den |-> count] ELSE Zero

\* mutant of GetLocals: the accumulator lives on between calls
GetLocalsStale ==
    [total_price |-> total_price, valid_points_count |-> 0, check_time |-> current_timestamp]

\* the locals GetSMA starts its first loop with (lines 146-150)
GetLocals == [total_price |-> 0, valid_points_count |-> 0, check_time |-> current_timestamp]

\* lines 139-190: the guard on current_timestamp and the initialisation
GetStart ==
    /\ pc = "idle"
    /\ ~raised
    /\ gets < MaxGets
    /\ remaining_seconds' = 0
    /\ counted' = <<>>
    /\ continued' = FALSE
    /\ IF current_timestamp = None \/ IsEpoch(current_timestamp)
       THEN /\ sma' = Zero
            /\ gets' = gets + 1
            /\ total_price' = 0
            /\ valid_points_count' = 0
            /\ check_time' = 0
            /\ pc' = "idle"
       ELSE /\ total_price' = GetLocals.total_price
            /\ valid_points_count' = GetLocals.valid_points_count
            /\ check_time' = GetLocals.check_time
            /\ pc' = "primary"
            /\ UNCHANGED <<sma, gets>>
    /\ UNCHANGED <<num_bin, window, data, current_timestamp, raised, nUpdates, maxTs,
                   lastSample, increasing, feed>>

\* mutant of Accumulates: price_at_time >= 0
AccumulatesSentinel(t) ==
    is_trading_time(t) /\ find_price_at_time(data, t, current_price) >= 0

\* whether the loop body accumulates the instant t (lines 194, 209-214; 286-293)
Accumulates(t) == is_trading_time(t) /\ find_price_at_time(data, t, current_price) > 0

\* self.data after the price lookup: sorted(self.data) sorts a copy
DataAfterLookup(d) == d

\* lines 192-265: one iteration of the first loop
PrimaryStep ==
    /\ pc = "primary"
    /\ check_time >= window_start /\ NotBeforeEpoch(check_time)
    /\ IF Accumulates(check_time)
       THEN /\ total_price' = total_price + find_price_at_time(data, check_time, current_price)
            /\ valid_points_count' = valid_points_count + 1
            /\ counted' = Append(counted, check_time)
       ELSE UNCHANGED <<total_price, valid_points_count, counted>>
    /\ check_time' = MovedBack(check_time - OneSecond, PrimaryJump(check_time - OneSecond))
    /\ data' = IF is_trading_time(check_time) THEN DataAfterLookup(data) ELSE data
    /\ UNCHANGED <<num_bin, window, current_timestamp, pc, remaining_seconds, sma,
                   continued, gets, raised, nUpdates, maxTs, lastSample, increasing, feed>>

\* lines 267-285 and 339-351: the first loop is over; enter the second loop or return
PrimaryExit ==
    /\ pc = "primary"
    /\ ~(check_time >= window_start /\ NotBeforeEpoch(check_time))
    /\ IF is_afternoon_session /\ valid_points_count < window
       THEN /\ check_time' = At(DateOf(current_timestamp), morning_end)
            /\ remaining_seconds' = window - valid_points_count
            /\ pc' = "continuation"
            /\ continued' = TRUE
            /\ UNCHANGED <<sma, gets>>
       ELSE /\ sma' = Quotient(total_price, valid_points_count)
            /\ gets' = gets + 1
            /\ pc' = "idle"
            /\ UNCHANGED <<check_time, remaining_seconds, continued>>
    /\ UNCHANGED <<num_bin, window, data, current_timestamp, total_price,
                   valid_points_count, counted, raised, nUpdates, maxTs, lastSample,
                   increasing, feed>>

\* lines 285-336: one iteration of the second loop
ContinuationStep ==
    /\ pc = "continuation"
    /\ NotBeforeEpoch(check_time) /\ remaining_seconds > 0
    /\ IF Accumulates(check_time)
       THEN /\ total_price' = total_price + find_price_at_time(data, check_time, current_price)
            /\ valid_points_count' = valid_points_count + 1
            /\ counted' = Append(counted, check_time)
       ELSE UNCHANGED <<total_price, valid_points_count, counted>>
    /\ remaining_seconds' = IF is_trading_time(check_time) THEN remaining_seconds - 1
                            ELSE remaining_seconds
    /\ check_time' = MovedBack(check_time - OneSecond,
                               ContinuationJump(check_time - OneSecond))
    /\ data' = IF is_trading_time(check_time) THEN DataAfterLookup(data) ELSE data
    /\ UNCHANGED <<num_bin, window, current_timestamp, pc, sma, continued, gets, raised, nUpdates,
                   maxTs, lastSample, increasing, feed>>

\* lines 339-351: the second loop is over; return
ContinuationExit ==
    /\ pc = "continuation"
    /\ ~(NotBeforeEpoch(check_time) /\ remaining_seconds > 0)
    /\ sma' = Quotient(total_price, valid_points_count)
    /\ gets' = gets + 1
    /\ pc' = "idle"
    /\ UNCHANGED <<num_bin, window, data, current_timestamp, check_time, total_price,
                   valid_points_count, remaining_seconds, counted, continued, raised,
                   nUpdates, maxTs, lastSample, increasing, feed>>

(***************************** callers **************************************)
\* 2025-04-04, the default start date of get_user_input, a Friday
Friday == DateOf(FromEpoch(1743724800))

Prices == {100, 101}

\* arbitrary calls on a few neighbouring instants: duplicates, any order
StoreFeed ==
    [name |-> "store", times |-> {At(Friday, morning_start) + k * OneSecond : k \in 0..2},
     caps |-> 1..MaxCap, windows |-> {2}, budget |-> MaxStoreUpdates, ordered |-> FALSE]

\* arbitrary calls on instants around the session boundaries
ClockTimes ==
    {At(Friday, HMS(9, 30, 0)), At(Friday, HMS(9, 30, 5)), At(Friday, HMS(11, 30, 2)),
     At(Friday, HMS(13, 0, 1)), At(Friday, HMS(15, 0, 0)), At(Friday, HMS(15, 0, 2)),
     At(Friday, HMS(15, 0, 11)), At(Friday + 1, HMS(10, 0, 0)), At(Friday + 3, HMS(8, 59, 59))}

ClockFeed ==
    [name |-> "clock", times |-> ClockTimes, caps |-> {10}, windows |-> {10},
     budget |-> MaxUpdates, ordered |-> FALSE]

\* a one-minute window over the first minute of the session
MinuteFeed ==
    [name |-> "minute", times |-> {At(Friday, HMS(9, 30, 0)), At(Friday, HMS(9, 31, 0))},
     caps |-> {10}, windows |-> {60}, budget |-> MaxUpdates, ordered |-> FALSE]

\* main(): a time-sorted stream from the session open
StreamFeed ==
    [name |-> "stream", times |-> {At(Friday, morning_start) + k * OneSecond : k \in 0..MaxFeed},
     caps |-> {5}, windows |-> {10}, budget |-> MaxFeed, ordered |-> TRUE]

\* a time-sorted stream whose window reaches from the open back to the previous
\* day's close
OvernightFeed ==
    [name |-> "overnight",
     times |-> {At(Friday - 1, HMS(9, 30, 0)), At(Friday, HMS(9, 30, 1))},
     caps |-> {10}, windows |-> {Seconds(18, 30, 5)}, budget |-> MaxUpdates, ordered |-> TRUE]

\* a time-sorted stream that overflows a larger series once
ReshapeFeed ==
    [name |-> "reshape", times |-> {At(Friday, morning_start) + k * OneSecond : k \in 0..ReshapeCap},
     caps |-> {ReshapeCap}, windows |-> {2}, budget |-> ReshapeCap + 1, ordered |-> TRUE]

\* a time-sorted stream from the morning close to the afternoon open, with a
\* window as long as the midday break and the seconds around it
LongWindowFeed ==
    [name |-> "longwindow",
     times |-> {At(Friday, HMS(11, 30, 0)), At(Friday, HMS(13, 0, 0))},
     caps |-> {10}, windows |-> {Seconds(1, 30, 0)}, budget |-> MaxUpdates, ordered |-> TRUE]

\* a time-sorted stream after the close and over the weekend
CloseFeed ==
    [name |-> "close",
     times |-> {At(Friday, HMS(15, 0, 2)), At(Friday + 1, HMS(10, 0, 0)),
                At(Friday + 3, HMS(8, 59, 59))},
     caps |-> {10}, windows |-> {10}, budget |-> MaxUpdates, ordered |-> TRUE]

\* arbitrary calls whose timestamps lie a sixteenth of a second apart
SubsecondFeed ==
    [name |-> "subsecond",
     times |-> {At(Friday, morning_start), At(Friday, morning_start) + 1,
                At(Friday, morning_start) + OneSecond},
     caps |-> {10}, windows |-> {2}, budget |-> MaxUpdates, ordered |-> FALSE]

\* a time-sorted stream that ends at midnight, with a window that reaches
\* back over the evening into the afternoon session
MidnightFeed ==
    [name |-> "midnight",
     times |-> {At(Friday, HMS(9, 30, 0)), At(Friday + 1, HMS(0, 0, 0))},
     caps |-> {10}, windows |-> {40000}, budget |-> MaxUpdates, ordered |-> TRUE]

Feeds == {StoreFeed, ClockFeed, MinuteFeed, StreamFeed, OvernightFeed, ReshapeFeed,
          LongWindowFeed, CloseFeed, SubsecondFeed, MidnightFeed}

Init ==
    /\ feed \in Feeds
    /\ num_bin \in feed.caps
    /\ window \in feed.windows
    /\ data = <<>>
    /\ current_timestamp = None
    /\ pc = "idle"
    /\ check_time = 0
    /\ total_price = 0
    /\ valid_points_count = 0
    /\ remaining_seconds = 0
    /\ sma = NoResult
    /\ counted = <<>>
    /\ continued = FALSE
    /\ gets = 0
    /\ raised = FALSE
    /\ nUpdates = 0
    /\ maxTs = None
    /\ lastSample = <<None, 0>>
    /\ increasing = TRUE

Get == GetStart \/ PrimaryStep \/ PrimaryExit \/ ContinuationStep \/ ContinuationExit

Next ==
    \/ \E timestamp \in feed.times, value \in Prices : Update(timestamp, value)
    \/ Get

Spec == Init /\ [][Next]_vars

\* GetSMA is sequential code: once called it keeps executing
\* the time-sorted feeds whose Get calls walk across the session boundaries
BoundaryFeeds == {OvernightFeed, LongWindowFeed, CloseFeed}

FairInit == Init /\ feed \in BoundaryFeeds

FairSpec == FairInit /\ [][Next]_vars /\ WF_vars(Get)

(***************************** claims: the series ***************************)
\* C1: after every Update the number of stored samples is at most the
\* capacity, for every capacity and every order of timestamps.
C1_SizeWithinCapacity == Len(data) <= num_bin

\* C1 witness: a series that was reshaped more than once by Updates that came
\* out of order, and is full.
C1_Witness ==
    /\ pc = "idle" /\ ~increasing
    /\ nUpdates > num_bin + 1
    /\ Len(data) = num_bin

\* the samples of the series with the greatest stored timestamp
Latest(d) == {i \in 1..Len(d) : \A j \in 1..Len(d) : d[j][1] <= d[i][1]}

\* C2: after every Update a sample with the greatest timestamp passed to
\* Update so far is stored; when the timestamps were strictly increasing it is
\* the sample of the latest Update; and with capacity 5, after twelve strictly
\* increasing Updates the series has 5 samples and its maximum-timestamp
\* element is the 12th sample.
C2_LatestRetained ==
    (nUpdates > 0 /\ ~raised) =>
        /\ \E i \in 1..Len(data) : data[i][1] = maxTs
        /\ increasing => \A i \in Latest(data) : data[i] = lastSample
        /\ (increasing /\ num_bin = 5 /\ nUpdates = 12) =>
               Len(data) = 5 /\ \A i \in Latest(data) : data[i] = lastSample

\* C2 witness: the latest Update carried an older timestamp and overflowed the
\* series, and the reshape kept the greatest timestamp.
C2_Witness ==
    /\ pc = "idle" /\ gets = 0
    /\ nUpdates > num_bin
    /\ lastSample[1] < maxTs
    /\ \E i \in 1..Len(data) : data[i][1] = maxTs

\* C10: no Update raises; and in the reshape any further Update would perform,
\* every sampling index lies inside its partition and the concatenation is
\* non-empty when the fixup overwrites its last element.
C10_UpdateNeverFails ==
    /\ ~raised
    /\ (pc = "idle" /\ gets = 0) =>
           \A timestamp \in feed.times, value \in Prices :
               LET appended == Append(data, <<timestamp, value>>) IN
               Len(appended) > num_bin =>
                   ReshapeSamplingOk(appended, num_bin) /\ FixupOk(appended, num_bin)

\* C10 witness: capacity 2, where recent_keep is 0, after two reshapes.
C10_Witness ==
    /\ pc = "idle" /\ ~raised
    /\ num_bin = 2 /\ recent_keep(num_bin) = 0
    /\ nUpdates = 4

(***************************** claims: Get **********************************)
\* a Get has returned since the latest Update, and it went through the loops
Returned == pc = "idle" /\ gets > 0 /\ current_timestamp # None /\ ~IsEpoch(current_timestamp)

PriceAt(t) == find_price_at_time(data, t, current_price)

\* the trading seconds now, now-1, ... of [now - window, now] that resolve to a
\* positive price
WindowInstants ==
    {t \in {current_timestamp - k * OneSecond : k \in 0..window} :
        NotBeforeEpoch(t) /\ is_trading_time(t) /\ PriceAt(t) > 0}

RECURSIVE WeightedSum(_, _)
WeightedSum(prices, instants) ==
    IF prices = {} THEN 0
    ELSE LET p == CHOOSE q \in prices : TRUE IN
         p * Cardinality({t \in instants : PriceAt(t) = p})
         + WeightedSum(prices \ {p}, instants)

\* the sum of the resolved prices over a set of instants
PriceSum(instants) == WeightedSum({data[i][2] : i \in 1..Len(data)}, instants)

\* the latest Get accumulated exactly the instants of WindowInstants, each
\* once, and returned the mean of their resolved prices
ExactWindowMean ==
    LET instants == WindowInstants IN
    /\ {counted[i] : i \in 1..Len(counted)} = instants
    /\ Len(counted) = Cardinality(instants)
    /\ sma = Quotient(PriceSum(instants), Cardinality(instants))

\* C3 as stated: for every now, Get returns the mean of the resolved prices
\* over exactly the trading seconds of [now - window, now] with a positive
\* price, and no instant outside the window contributes.
C3_Original == Returned => ExactWindowMean


\* the instants a state holds: now, the cursor of a running Get, the stored
\* timestamps
Probed ==
    (IF current_timestamp # None THEN {current_timestamp} ELSE {})
    \cup (IF pc # "idle" THEN {check_time} ELSE {})
    \cup {data[i][1] : i \in 1..Len(data)}

Weekend(t) == Weekday(DateOf(t)) \in {5, 6}

\* C4 as stated: not trading on Saturday/Sunday, strictly between 11:30:00 and
\* 13:00:00, strictly before 09:30:00, at or after 15:00:00; trading otherwise.
C4_Original ==
    \A t \in Probed :
        is_trading_time(t) <=>
            ~(\/ Weekend(t)
              \/ (HMS(11, 30, 0) < SecondOfDay(t) /\ SecondOfDay(t) < HMS(13, 0, 0))
              \/ SecondOfDay(t) < HMS(9, 30, 0)
              \/ SecondOfDay(t) >= HMS(15, 0, 0))

\* C4 amended: the afternoon close 15:00:00 itself is a trading instant; not
\* trading strictly after 15:00:00.
C4_TradingTime ==
    \A t \in Probed :
        is_trading_time(t) <=>
            ~(\/ Weekend(t)
              \/ (HMS(11, 30, 0) < SecondOfDay(t) /\ SecondOfDay(t) < HMS(13, 0, 0))
              \/ SecondOfDay(t) < HMS(9, 30, 0)
              \/ SecondOfDay(t) > HMS(15, 0, 0))

\* C4 witness: the cursor of a Get stands on a weekday's 15:00:00 and the
\* instant is accumulated.
C4_Witness ==
    /\ pc = "primary"
    /\ check_time = At(Friday, HMS(15, 0, 0))
    /\ is_trading_time(check_time)
    /\ current_timestamp > check_time

\* no trading instant lies in [now - window, now]
WindowHasNoTrading ==
    \A t \in (current_timestamp - window * TicksPerSecond)..current_timestamp :
        ~is_trading_time(t)

\* C5 as stated: Get returns 0.0 when no Update has occurred and whenever
\* the window holds no trading instant.
C5_Original ==
    (pc = "idle" /\ gets > 0) =>
        /\ nUpdates = 0 => sma = Zero
        /\ (nUpdates > 0 /\ WindowHasNoTrading) => sma = Zero

\* the stored samples that decide the price at t: those at t, else those with
\* the greatest timestamp before t
Deciding(d, t) ==
    IF \E i \in 1..Len(d) : d[i][1] = t
    THEN {i \in 1..Len(d) : d[i][1] = t}
    ELSE {i \in 1..Len(d) : d[i][1] < t /\ \A j \in 1..Len(d) : d[j][1] < t => d[j][1] <= d[i][1]}

\* C6 as stated: for a non-empty series the lookup at the cursor returns the
\* price of a stored sample whose timestamp equals the cursor if there is one,
\* else the price of a stored sample with the greatest timestamp before it,
\* else 0, in whatever order the samples are stored.
C6_Original ==
    (pc # "idle" /\ data # <<>>) =>
        IF Deciding(data, check_time) = {} THEN PriceAt(check_time) = 0
        ELSE \E i \in Deciding(data, check_time) : PriceAt(check_time) = data[i][2]

MinPrice == CHOOSE p \in {data[i][2] : i \in 1..Len(data)} : \A j \in 1..Len(data) : p <= data[j][2]
MaxPrice == CHOOSE p \in {data[i][2] : i \in 1..Len(data)} : \A j \in 1..Len(data) : p >= data[j][2]

\* C7: an instant that resolves to 0 is never accumulated, in either walk, so
\* a non-zero result of Get lies between the least and the greatest stored
\* price.
C7_SentinelExcluded ==
    /\ \A i \in 1..Len(counted) : PriceAt(counted[i]) > 0
    /\ valid_points_count = Len(counted)
    /\ (Returned /\ sma # Zero) =>
           /\ MinPrice * sma.den <= sma.num
           /\ sma.num <= MaxPrice * sma.den

\* C7 witness: a Get returned a non-zero mean although its walk met trading
\* instants before the earliest stored sample.
C7_Witness ==
    /\ Returned /\ sma # Zero
    /\ \E k \in 0..window :
           /\ is_trading_time(current_timestamp - k * OneSecond)
           /\ PriceAt(current_timestamp - k * OneSecond) = 0

MorningSession(t) ==
    /\ ~Weekend(t)
    /\ HMS(9, 30, 0) <= SecondOfDay(t) /\ SecondOfDay(t) <= HMS(11, 30, 0)

GetStep == pc # "idle" \/ pc' # "idle" \/ gets' = gets + 1

\* C9: no step of Get changes the series or now, and a Get that follows a Get
\* with no Update between them returns the same value.
C9_GetIsPure ==
    [][GetStep =>
          /\ data' = data
          /\ current_timestamp' = current_timestamp
          /\ (gets >= 1 /\ gets' = gets + 1) => sma' = sma]_vars

\* C9 witness: two Gets in a row returned, the second loop included.
C9_Witness ==
    /\ pc = "idle" /\ gets = 2
    /\ continued
    /\ sma # Zero

(***************************** claims: the walks ****************************)
\* this step of the first loop ended in "check_time = jump_to_time": the
\* cursor was decremented by one second and then moved further back
PrimaryJumped ==
    pc = "primary" /\ pc' = "primary" /\ check_time' # check_time - OneSecond

\* no trading instant lies strictly between the instants a and b
NoTradingBetween(a, b) == \A u \in (a + 1)..(b - 1) : ~is_trading_time(u)

\* C11 as stated: whenever the first walk jumps from a non-trading cursor t,
\* the target is a trading instant (a session close of a weekday) and no
\* trading instant lies strictly between the target and t; for every
\* non-trading t, after 15:00:00 on a weekday and on a weekend included.
C11_Original ==
    [][PrimaryJumped =>
          /\ is_trading_time(check_time')
          /\ SecondOfDay(check_time') \in {morning_end, afternoon_end}
          /\ NoTradingBetween(check_time', check_time - OneSecond)]_vars

AfternoonSession(t) ==
    /\ ~Weekend(t)
    /\ HMS(13, 0, 0) <= SecondOfDay(t) /\ SecondOfDay(t) <= HMS(15, 0, 0)

\* C12 as stated: the second walk runs only when now falls in the afternoon
\* session [13:00:00, 15:00:00] of a weekday and fewer than window instants
\* were counted by the first walk; for any other now, Get returns what the
\* first walk accumulated.
C12_Original ==
    /\ (pc = "continuation") => AfternoonSession(current_timestamp)
    /\ (Returned /\ ~AfternoonSession(current_timestamp)) => ~continued

(***************************** claims: the reshape **************************)
\* the indices picked from a partition of len samples are strictly increasing
StrictlyIncreasingIndices(len, keep) ==
    \A i \in 1..(keep - 1) : SampleIndices(len, keep)[i] < SampleIndices(len, keep)[i + 1]

\* the selection from a partition is a subsequence of it, of size keep
IsSubsequenceSelection(part, keep) ==
    (part # <<>> /\ keep > 0) =>
        /\ Len(Sampled(part, keep)) = keep
        /\ StrictlyIncreasingIndices(Len(part), keep)

\* C13 as stated: in the reshape any further Update would perform, the
\* selection from each non-empty partition is a subsequence of it of size
\* keep_k (strictly increasing indices, nothing picked twice); so a sample is
\* stored at most as often as it was inserted: once, when every Update so far
\* had a timestamp above all earlier ones.
C13_Original ==
    /\ (pc = "idle" /\ gets = 0 /\ ~raised) =>
           \A timestamp \in feed.times, value \in Prices :
               LET appended == Append(data, <<timestamp, value>>) IN
               Len(appended) > num_bin =>
                   /\ IsSubsequenceSelection(early_data(appended), early_keep(num_bin))
                   /\ IsSubsequenceSelection(mid_data(appended), mid_keep(num_bin))
                   /\ IsSubsequenceSelection(recent_data(appended), recent_keep(num_bin))
    /\ increasing => \A i, j \in 1..Len(data) : data[i][1] = data[j][1] => i = j

(***************************** claims: termination **************************)
\* an iteration of the first or of the second loop
WalkStep == pc # "idle" /\ pc' = pc

\* C14: in both walks the cursor strictly decreases on every iteration (a
\* jump is taken only to a target below the decremented cursor), and every
\* Get call returns.
C14_GetTerminates ==
    /\ [][WalkStep =>
             /\ check_time' < check_time
             /\ check_time' # check_time - OneSecond =>
                    /\ ~is_trading_time(check_time - OneSecond)
                    /\ check_time' < check_time - OneSecond]_vars
    /\ (pc # "idle") ~> (pc = "idle")

\* C14 witness: the cursor of a walk stands on a non-trading instant from
\* which no jump is defined, reached by single decrements.
C14_Witness ==
    /\ pc = "primary"
    /\ check_time < current_timestamp
    /\ ~is_trading_time(check_time)
    /\ PrimaryJump(check_time) = None

(***************************** claims: double counting **********************)
\* C15 as stated: within one Get call no instant is accumulated more than
\* once: the instants counted by the second walk, which restarts at that
\* day's 11:30:00, are none of those the first walk counted, for every now and
\* every window, windows that let the first walk reach the morning session
\* included.
C15_Original == Cardinality({counted[i] : i \in 1..Len(counted)}) = Len(counted)

====
